---- MODULE Spec2Model ----
(***************************************************************************)
(* A model of pytest-sphinx's docutils directives (src/docutils_doctest.py) *)
(* and of the section assembler that pairs testcode with testoutput blocks. *)
(*                                                                          *)
(* Text is a sequence of tokens.  The tokens are the characters the two     *)
(* regular expressions of the module tell apart: "#", " " (any horizontal   *)
(* white space), "NL" (a line break), "x" (any other character), and the    *)
(* two literals the expressions search for, "doctest:" and "<BLANKLINE>",   *)
(* each kept as one token.  Neither literal overlaps itself, and both       *)
(* substitutions delete a region that ends where the literal ends or at an  *)
(* end of line, so deleting a match never splices a new literal together    *)
(* from pieces: treating the literals as atoms loses no behaviour.          *)
(***************************************************************************)
EXTENDS Integers, Sequences, FiniteSets, TLC

\* ---------------------------------------------------------------- bounds
\* Longest block body, in tokens.
MaxLen == 5
\* Longest doctest body written with the characters of an annotation only.
MaxLongLen == 7
\* Longest value of an "options" option, in atoms.
MaxOptLen == 5
\* Most options declared on one block.
MaxOptions == 4
\* Longest directive argument, in atoms.
MaxArgLen == 4
\* Last line a directive may open on.
MaxLine == 2
\* Most items (directive blocks and stretches of prose) in one document.
MaxDoc == 3

\* ---------------------------------------------------------------- values
\* Python's None, as a value of the type of texts (no text holds this token).
None == <<"None">>

Tokens == {"#", " ", "NL", "x", "doctest:", "<BLANKLINE>"}

\* Every text of at most n tokens.
TextsUpTo(n) == UNION {[1..k -> Tokens] : k \in 0..n}

\* The five registered directive names.
DirectiveNames == {"testsetup", "testcleanup", "doctest", "testcode", "testoutput"}

\* ------------------------------------------------- the regular expressions
\* \s of Python's re: the white-space characters, a line break among them.
IsSpace(c) == c \in {" ", "NL"}

\* The first index >= i of t that holds no white space (Len(t)+1 when none):
\* where a greedy \s* started at i stops.
RECURSIVE SkipSpace(_, _)
SkipSpace(t, i) ==
    IF i <= Len(t) /\ IsSpace(t[i]) THEN SkipSpace(t, i + 1) ELSE i

\* The last index of the line that holds index i: where a greedy .+ followed
\* by $ (MULTILINE) stops, "." matching anything but a line break.
RECURSIVE LineEnd(_, _)
LineEnd(t, i) ==
    IF i < Len(t) /\ t[i + 1] # "NL" THEN LineEnd(t, i + 1) ELSE i

\* Whether index i starts a line: where ^ (MULTILINE) matches.
AtLineStart(t, i) == i = 1 \/ t[i - 1] = "NL"

\* A variant of blankline_match for ^<BLANKLINE>: the marker's indentation is
\* not matched.
blankline_match_unindented(t, i) ==
    IF AtLineStart(t, i) /\ t[i] = "<BLANKLINE>" THEN i ELSE 0

\* blankline_re = ^\s*<BLANKLINE> (MULTILINE): the last index of the match
\* that starts at i, 0 when none starts there.
blankline_match(t, i) ==
    IF AtLineStart(t, i)
    THEN LET j == SkipSpace(t, i)
         IN  IF j <= Len(t) /\ t[j] = "<BLANKLINE>" THEN j ELSE 0
    ELSE 0

\* A variant of doctestopt_match for #\s+doctest:.+$: white space is required
\* after the "#".
doctestopt_match_space_required(t, i) ==
    IF t[i] = "#" /\ i < Len(t) /\ IsSpace(t[i + 1])
    THEN LET j == SkipSpace(t, i + 1)
         IN  IF /\ j < Len(t)
                /\ t[j] = "doctest:"
                /\ t[j + 1] # "NL"
             THEN LineEnd(t, j + 1)
             ELSE 0
    ELSE 0

\* doctestopt_re = #\s*doctest:.+$ (MULTILINE): the last index of the match
\* that starts at i, 0 when none starts there.
doctestopt_match(t, i) ==
    IF t[i] = "#"
    THEN LET j == SkipSpace(t, i + 1)
         IN  IF /\ j < Len(t)
                /\ t[j] = "doctest:"
                /\ t[j + 1] # "NL"
             THEN LineEnd(t, j + 1)
             ELSE 0
    ELSE 0

\* blankline_re.sub("", t) from index i on: the matches are found left to
\* right, each search resuming where the last match ended.
RECURSIVE blankline_sub_from(_, _)
blankline_sub_from(t, i) ==
    IF i > Len(t) THEN <<>>
    ELSE LET e == blankline_match(t, i)
         IN  IF e > 0 THEN blankline_sub_from(t, e + 1)
             ELSE <<t[i]>> \o blankline_sub_from(t, i + 1)

\* A variant of blankline_sub for blankline_re.sub("", t, count=1): only the
\* first match is deleted.
RECURSIVE blankline_sub_first_from(_, _)
blankline_sub_first_from(t, i) ==
    IF i > Len(t) THEN <<>>
    ELSE LET e == blankline_match(t, i)
         IN  IF e > 0 THEN SubSeq(t, e + 1, Len(t))
             ELSE <<t[i]>> \o blankline_sub_first_from(t, i + 1)

blankline_sub_first_only(t) == blankline_sub_first_from(t, 1)

blankline_sub(t) == blankline_sub_from(t, 1)

\* doctestopt_re.sub("", t) from index i on.
RECURSIVE doctestopt_sub_from(_, _)
doctestopt_sub_from(t, i) ==
    IF i > Len(t) THEN <<>>
    ELSE LET e == doctestopt_match(t, i)
         IN  IF e > 0 THEN doctestopt_sub_from(t, e + 1)
             ELSE <<t[i]>> \o doctestopt_sub_from(t, i + 1)

doctestopt_sub(t) == doctestopt_sub_from(t, 1)

\* doctestopt_re.search(t): whether the expression matches anywhere.
doctestopt_search(t) == \E i \in 1..Len(t) : doctestopt_match(t, i) > 0

\* "<BLANKLINE>" in t.
HasBlankline(t) == \E i \in 1..Len(t) : t[i] = "<BLANKLINE>"

\* ------------------------------------------------------------- directives
\* self.options is a dict in declaration order: a sequence of entries
\* [name, value] with distinct names.
HasOption(options, name) == \E i \in 1..Len(options) : options[i].name = name

OptionValue(options, name) ==
    options[CHOOSE i \in 1..Len(options) : options[i].name = name].value

\* Lines 47-62 of run: the body text and the text kept for presentation.
\* Only a doctest block is touched.
Normalize(name, content, options) ==
    IF name = "doctest"
    THEN LET test1 == IF HasBlankline(content) THEN content ELSE None
             code1 == IF HasBlankline(content) THEN blankline_sub(content)
                      ELSE content
             strip == /\ doctestopt_search(code1)
                      /\ ~HasOption(options, "no-trim-doctest-flags")
             \* "if not test": None and the empty text are both false
             test2 == IF strip /\ (test1 = None \/ test1 = <<>>)
                      THEN code1 ELSE test1
             code2 == IF strip THEN doctestopt_sub(code1) ELSE code1
         IN  [code |-> code2, test |-> test2]
    ELSE [code |-> content, test |-> None]

\* ------------------------------------------------------- the module's names
\* The names src/docutils_doctest.py binds at module level (its imports, its
\* assignments, its classes and functions).  A name read inside run that is
\* neither here nor a builtin raises NameError when the line is reached.
ModuleGlobals ==
    {"doctest", "re", "sys", "Any", "Callable", "Dict", "Iterable", "List",
     "Optional", "Tuple", "Type", "docutils", "nodes", "Node", "TextElement",
     "Directive", "directives", "blankline_re", "doctestopt_re", "OptionSpec",
     "TestDirective", "TestsetupDirective", "TestcleanupDirective",
     "DoctestDirective", "TestcodeDirective", "TestoutputDirective",
     "TestCode", "parser", "setup"}

\* ------------------------------------------------------ comparison flags
\* Some names of doctest.OPTIONFLAGS_BY_NAME (the standard library's
\* registry), and a word that is not in it.
RegisteredFlags == {"ELLIPSIS", "NORMALIZE_WHITESPACE", "SKIP"}

OptionAtoms == {"+", "-", ",", " "} \cup RegisteredFlags \cup {"BOGUS"}

\* The empty dict.
EmptyMap == [k \in {} |-> TRUE]

\* m[k] = v on a dict.
Put(m, k, v) == [x \in (DOMAIN m) \cup {k} |-> IF x = k THEN v ELSE m[x]]

\* s.replace(",", " ")
ReplaceCommas(s) == [i \in 1..Len(s) |-> IF s[i] = "," THEN " " ELSE s[i]]

\* s.split(): the maximal runs of s that hold no white space, in order.
\* cur is the run being read.
RECURSIVE SplitFrom(_, _, _)
SplitFrom(s, i, cur) ==
    IF i > Len(s) THEN (IF cur = <<>> THEN <<>> ELSE <<cur>>)
    ELSE IF s[i] = " "
         THEN (IF cur = <<>> THEN <<>> ELSE <<cur>>) \o SplitFrom(s, i + 1, <<>>)
         ELSE SplitFrom(s, i + 1, Append(cur, s[i]))

\* self.options["options"].replace(",", " ").split()
OptionStrings(value) == SplitFrom(ReplaceCommas(value), 1, <<>>)

\* option[0] not in "+-": a flag name's first character is a letter.
PrefixIsSign(option) == option[1] \in {"+", "-"}

\* option[1:] in doctest.OPTIONFLAGS_BY_NAME
NameIsRegistered(option) == Len(option) = 2 /\ option[2] \in RegisteredFlags

\* reporter.warning(__(...) % token, line=lineno), lines 98-101, 104-107 and
\* 119-121: the argument is evaluated first, and the module binds no "__".
\* The result is the reporter's record, or the exception raised.
Warning(reported, token, lineno) ==
    IF "__" \in ModuleGlobals
    THEN [raised |-> "none",
          reported |-> Append(reported, [token |-> token, line |-> lineno])]
    ELSE [raised |-> "NameError", reported |-> reported]

\* The loop of lines 95-110 from token k on: flags is node["options"] so far.
RECURSIVE ParseOptions(_, _, _, _, _)
ParseOptions(strings, k, flags, reported, lineno) ==
    IF k > Len(strings)
    THEN [raised |-> "none", flags |-> flags, reported |-> reported]
    ELSE LET option == strings[k]
             bad    == ~PrefixIsSign(option) \/ ~NameIsRegistered(option)
             w      == Warning(reported,
                               IF PrefixIsSign(option) THEN Tail(option)
                               ELSE option,
                               lineno)
         IN  IF bad
             THEN IF w.raised # "none"
                  THEN [raised |-> w.raised, flags |-> flags,
                        reported |-> w.reported]
                  ELSE ParseOptions(strings, k + 1, flags, w.reported, lineno)
             ELSE ParseOptions(strings, k + 1,
                               Put(flags, option[2], option[1] = "+"),
                               reported, lineno)

\* ---------------------------------------------------------- version gate
\* The pyversion values modelled, with what a specifier check against the
\* running interpreter (a Python 3) would answer.
PyversionValues == {<<">=3.0">>, <<"<3.0">>, <<"bogus">>}

ValidSpecifier(spec) == spec \in {<<">=3.0">>, <<"<3.0">>}

SpecifierMatches(spec) == spec = <<">=3.0">>

\* Lines 111-121.  The try body calls is_allowed_version, and the handler
\* names InvalidSpecifier: the module binds neither, so the call raises
\* NameError, and matching the handler raises NameError again.
PyversionGate(name, options, flags, reported, lineno) ==
    IF name = "doctest" /\ HasOption(options, "pyversion")
    THEN LET spec == OptionValue(options, "pyversion")
         IN  IF "is_allowed_version" \notin ModuleGlobals
                \/ "InvalidSpecifier" \notin ModuleGlobals
             THEN [raised |-> "NameError", flags |-> flags,
                   reported |-> reported]
             ELSE IF ~ValidSpecifier(spec)
             THEN LET w == Warning(reported, spec, lineno)
                  IN  [raised |-> w.raised, flags |-> flags,
                       reported |-> w.reported]
             ELSE [raised |-> "none",
                   flags |-> IF SpecifierMatches(spec) THEN flags
                             ELSE Put(flags, "SKIP", TRUE),
                   reported |-> reported]
    ELSE [raised |-> "none", flags |-> flags, reported |-> reported]

\* ----------------------------------------------------------- trim toggles
\* A variant of TrimFlags in which the toggle declared last decides.
TrimFlagsLastDeclared(options) ==
    LET toggles == {i \in 1..Len(options) :
                       options[i].name \in {"trim-doctest-flags",
                                            "no-trim-doctest-flags"}}
    IN  IF toggles = {} THEN "unset"
        ELSE LET last == CHOOSE i \in toggles : \A j \in toggles : j <= i
             IN  IF options[last].name = "trim-doctest-flags" THEN "True"
                 ELSE "False"

\* Lines 124-127: node["trim_flags"], "unset" when the key is not set.
TrimFlags(options) ==
    IF HasOption(options, "trim-doctest-flags") THEN "True"
    ELSE IF HasOption(options, "no-trim-doctest-flags") THEN "False"
    ELSE "unset"

\* ----------------------------------------------------------------- groups
\* The characters of a directive argument: letters of group names, the
\* comma and white space.
ArgAtoms == {"a", "b", ",", " "}

\* s.split(","): the pieces between commas, empty ones included.
RECURSIVE SplitCommaFrom(_, _, _)
SplitCommaFrom(s, i, cur) ==
    IF i > Len(s) THEN <<cur>>
    ELSE IF s[i] = ","
         THEN <<cur>> \o SplitCommaFrom(s, i + 1, <<>>)
         ELSE SplitCommaFrom(s, i + 1, Append(cur, s[i]))

\* A variant of Strip that trims the leading white space only (x.lstrip()).
RECURSIVE StripLeadingOnly(_)
StripLeadingOnly(x) ==
    IF x = <<>> THEN x
    ELSE IF Head(x) = " " THEN StripLeadingOnly(Tail(x))
    ELSE x

\* x.strip()
RECURSIVE Strip(_)
Strip(x) ==
    IF x = <<>> THEN x
    ELSE IF Head(x) = " " THEN Strip(Tail(x))
    ELSE IF x[Len(x)] = " " THEN Strip(SubSeq(x, 1, Len(x) - 1))
    ELSE x

\* Lines 66-69.
Groups(arguments) ==
    IF arguments # <<>>
    THEN LET pieces == SplitCommaFrom(arguments[1], 1, <<>>)
         IN  [i \in 1..Len(pieces) |-> Strip(pieces[i])]
    ELSE <<<<"default">>>>

\* -------------------------------------------------------------------- run
\* Lines 63-65.
NodeType(name, options) ==
    IF name \in {"testsetup", "testcleanup"} \/ HasOption(options, "hide")
    THEN "comment" ELSE "literal_block"

\* Lines 75-90: node["language"], None when the key is not set.
Language(name) ==
    CASE name = "doctest"    -> <<"pycon3">>
      [] name = "testcode"   -> <<"python3">>
      [] name = "testoutput" -> <<"none">>
      [] OTHER               -> None

\* No node: run raised before it returned.
NoNode == [nodetype |-> "none"]

\* TestDirective.run on directive d, with the document reporter holding
\* `reported`: the node returned (or the exception raised) and the reporter
\* afterwards.
Run(d, reported) ==
    LET n     == Normalize(d.name, d.content, d.options)
        opts  == IF d.name \in {"doctest", "testoutput"}
                    /\ HasOption(d.options, "options")
                 THEN ParseOptions(OptionStrings(OptionValue(d.options, "options")),
                                   1, EmptyMap, reported, d.lineno)
                 ELSE [raised |-> "none", flags |-> EmptyMap,
                       reported |-> reported]
        gate  == IF opts.raised = "none"
                 THEN PyversionGate(d.name, d.options, opts.flags,
                                    opts.reported, d.lineno)
                 ELSE opts
        node  == [nodetype     |-> NodeType(d.name, d.options),
                  code         |-> n.code,
                  testnodetype |-> d.name,
                  groups       |-> Groups(d.arguments),
                  line         |-> d.lineno,
                  test         |-> n.test,
                  language     |-> Language(d.name),
                  options      |-> gate.flags,
                  skipif       |-> IF HasOption(d.options, "skipif")
                                   THEN OptionValue(d.options, "skipif")
                                   ELSE None,
                  trim_flags   |-> TrimFlags(d.options)]
    IN  IF gate.raised = "none"
        THEN [raised |-> "none", node |-> node, reported |-> gate.reported]
        ELSE [raised |-> gate.raised, node |-> NoNode,
              reported |-> gate.reported]

\* ------------------------------------------------------------ option_spec
\* Lines 131-168: the options each directive class accepts (docutils rejects
\* any other, and a repeated one, before run is called).
option_spec(name) ==
    CASE name \in {"testsetup", "testcleanup"} -> {"skipif"}
      [] name = "testcode" ->
            {"hide", "no-trim-doctest-flags", "pyversion", "skipif",
             "trim-doctest-flags"}
      [] OTHER ->
            {"hide", "no-trim-doctest-flags", "options", "pyversion",
             "skipif", "trim-doctest-flags"}

\* ------------------------------------------------------------- the inputs
OptionTexts == UNION {[1..k -> OptionAtoms] : k \in 0..MaxOptLen}

ArgTexts == UNION {[1..k -> ArgAtoms] : k \in 1..MaxArgLen}

\* The values an option takes: a flag has none, skipif is any expression,
\* "options" is one of two well-formed lists here.
OptionValues(name) ==
    CASE name = "options"   -> {<<"+", "ELLIPSIS">>, <<"-", "SKIP">>}
      [] name = "pyversion" -> PyversionValues
      [] name = "skipif"    -> {<<"cond">>}
      [] OTHER              -> {None}

OptionNames ==
    {"hide", "no-trim-doctest-flags", "options", "pyversion", "skipif",
     "trim-doctest-flags"}

OptionEntries ==
    UNION {{[name |-> o, value |-> v] : v \in OptionValues(o)} : o \in OptionNames}

\* The option blocks of at most MaxOptions options: no name twice.
OptionBlocks ==
    {s \in UNION {[1..k -> OptionEntries] : k \in 0..MaxOptions} :
        \A i, j \in 1..Len(s) : i # j => s[i].name # s[j].name}

Accepted(name, options) ==
    \A i \in 1..Len(options) : options[i].name \in option_spec(name)

\* Blocks whose "options" value is any text: the comparison-flag grammar.
FlagDirectives ==
    {[name |-> n, arguments |-> <<>>, content |-> <<"x">>,
      options |-> <<[name |-> "options", value |-> v]>>, lineno |-> l] :
        n \in {"doctest", "testoutput"}, v \in OptionTexts, l \in 1..MaxLine}

\* Blocks of every kind with every accepted option block, in every order.
GateDirectives ==
    {d \in [name : DirectiveNames, arguments : {<<>>}, content : {<<"x">>},
            options : OptionBlocks, lineno : 1..MaxLine] :
        Accepted(d.name, d.options)}

\* The longer texts of "#", "doctest:", line breaks and other characters:
\* long enough for an annotation that a second "#" precedes and a further
\* line follows.
LongTexts ==
    UNION {[1..k -> {"#", "doctest:", "NL", "x"}] : k \in (MaxLen + 1)..MaxLongLen}

\* Blocks with every body text, with and without no-trim-doctest-flags; the
\* longer texts on doctest blocks, the only ones run rewrites.
NormDirectives ==
    [name : {"doctest", "testcode", "testoutput"}, arguments : {<<>>},
     content : TextsUpTo(MaxLen),
     options : {<<>>, <<[name |-> "no-trim-doctest-flags", value |-> None]>>},
     lineno : {1}]
    \cup
    [name : {"doctest"}, arguments : {<<>>},
     content : LongTexts,
     options : {<<>>, <<[name |-> "no-trim-doctest-flags", value |-> None]>>},
     lineno : {1}]

\* Blocks of every kind without an argument and with every argument
\* docutils hands over: the text after "::", which it has stripped, so that
\* it neither starts nor ends with white space.
GroupDirectives ==
    [name : DirectiveNames,
     arguments : {<<>>} \cup
                 {<<a>> : a \in {t \in ArgTexts :
                                   t[1] # " " /\ t[Len(t)] # " "}},
     content : {<<"x">>}, options : {<<>>}, lineno : 1..MaxLine]

\* ------------------------------------------------------ the section assembler
\* The assembler of spec sections 3 and 4.3 (its code, pytest_sphinx's
\* docstring2examples and get_sections, is called by src/tests and is not
\* among the sources).  Of the two readings the spec gives for a second
\* testoutput after one testcode, the model takes the one of its last
\* bullet, its design notes and test_skipif_multiple_testoutput: the pending
\* Example keeps its place in the slot until the next code block of the
\* group, and every testoutput met meanwhile joins its list of alternatives.
GroupNames == {"default", "g"}

\* The group lists a directive argument may name.
GroupLists == {<<"default">>, <<"g">>, <<"default", "g">>}

\* Raw bodies: lines <<indentation, text>>, a blank line being <<0, "">>.
RawBodies ==
    { << <<4, "a">>, <<6, "b">> >>,
      << <<6, "a">>, <<0, "">>, <<5, "b">> >> }

Min(S) == CHOOSE x \in S : \A y \in S : x <= y

\* Section 4.2, step 3: the least indentation among the non-blank lines is
\* taken off every line.
Dedent(body) ==
    LET solid  == {i \in 1..Len(body) : body[i][2] # ""}
        common == IF solid = {} THEN 0 ELSE Min({body[i][1] : i \in solid})
    IN  [i \in 1..Len(body) |->
            IF body[i][2] = "" THEN body[i]
            ELSE <<body[i][1] - common, body[i][2]>>]

\* The items of a document: directive blocks and stretches of prose.  skip
\* is what the block's skipif evaluates to at run time.
Blocks ==
    [kind : {"testcode"}, groups : GroupLists, body : RawBodies, skip : {FALSE}]
    \cup
    [kind : {"testoutput"}, groups : GroupLists, body : RawBodies, skip : BOOLEAN]
    \cup
    [kind : {"doctest", "testsetup", "testcleanup"}, groups : GroupLists,
     body : {<< <<4, "a">>, <<6, "b">> >>}, skip : {FALSE}]

Prose == [kind |-> "prose", groups |-> <<>>, body |-> <<>>, skip |-> FALSE]

InGroup(block, g) == \E i \in 1..Len(block.groups) : block.groups[i] = g

\* Section 7: an orphaned output is fatal to the parsing of its group.
Failed(orph, g) == \E o \in orph : o[1] = g

\* A variant of AttachOutput that pairs the output and clears the slot: a
\* further testoutput of the group finds no pending Example.
AttachOutputClearingSlot(st, block, line, g) ==
    IF st.slot[g] # 0
    THEN [st EXCEPT
            !.examples[st.slot[g]].outputs =
                Append(@, [want |-> Dedent(block.body), skip |-> block.skip,
                           lineno |-> line]),
            !.slot = [@ EXCEPT ![g] = 0]]
    ELSE [st EXCEPT !.orphans = @ \cup {<<g, line>>}]

\* A variant of AttachOutput that takes the latest pending Example of the
\* document, whatever its group.
AttachOutputToLatestCode(st, block, line, g) ==
    LET pending == {st.slot[h] : h \in GroupNames} \ {0}
    IN  IF pending # {}
        THEN [st EXCEPT
                !.examples[CHOOSE e \in pending : \A f \in pending : f <= e].outputs =
                    Append(@, [want |-> Dedent(block.body),
                               skip |-> block.skip, lineno |-> line])]
        ELSE [st EXCEPT !.orphans = @ \cup {<<g, line>>}]

\* A testoutput block in group g, section 4.3: it joins the alternatives of
\* the group's pending Example; with none pending it is an orphaned output.
\* st is [slot, examples, orphans], line the block's place in the document.
AttachOutput(st, block, line, g) ==
    IF st.slot[g] # 0
    THEN [st EXCEPT
            !.examples[st.slot[g]].outputs =
                Append(@, [want |-> Dedent(block.body), skip |-> block.skip,
                           lineno |-> line])]
    ELSE [st EXCEPT !.orphans = @ \cup {<<g, line>>}]

\* One group's share of one block, section 4.3.
AssembleInGroup(st, block, line, g) ==
    IF Failed(st.orphans, g) THEN st
    ELSE CASE block.kind = "testcode" ->
                \* the pending Example, if any, stays as it is (code only or
                \* with its outputs); the new one takes the slot
                [st EXCEPT
                   !.examples = Append(@, [group |-> g, kind |-> "testcode",
                                           code |-> Dedent(block.body),
                                           outputs |-> <<>>, lineno |-> line]),
                   !.slot = [@ EXCEPT ![g] = Len(st.examples) + 1]]
           [] block.kind = "doctest" ->
                \* self-contained: emitted at once, nothing left pending
                [st EXCEPT
                   !.examples = Append(@, [group |-> g, kind |-> "doctest",
                                           code |-> Dedent(block.body),
                                           outputs |-> <<>>, lineno |-> line]),
                   !.slot = [@ EXCEPT ![g] = 0]]
           [] block.kind \in {"testsetup", "testcleanup"} ->
                [st EXCEPT
                   !.examples = Append(@, [group |-> g, kind |-> block.kind,
                                           code |-> Dedent(block.body),
                                           outputs |-> <<>>, lineno |-> line])]
           [] block.kind = "testoutput" -> AttachOutput(st, block, line, g)
           [] OTHER -> st

\* A block is demultiplexed into its groups, in the order it names them.
RECURSIVE AssembleFrom(_, _, _, _)
AssembleFrom(st, block, line, k) ==
    IF k > Len(block.groups) THEN st
    ELSE AssembleFrom(AssembleInGroup(st, block, line, block.groups[k]),
                      block, line, k + 1)

Assemble(st, block, line) == AssembleFrom(st, block, line, 1)

\* The expectation the runner uses, section 4.3: the first alternative that
\* is not skipped; the empty text when there is none.
RECURSIVE FirstUnskipped(_, _)
FirstUnskipped(outputs, k) ==
    IF k > Len(outputs) THEN <<>>
    ELSE IF ~outputs[k].skip THEN outputs[k].want
    ELSE FirstUnskipped(outputs, k + 1)

Want(example) == FirstUnskipped(example.outputs, 1)

\* ------------------------------------------------------------------ state
VARIABLES
    pc,         \* "ready", then "returned" or "raised"
    directive,  \* the directive run was called on
    outcome,    \* [raised, node]: what run returned or raised
    reported,   \* the warnings the document reporter holds
    doc,        \* the items of the document scanned so far, in order
    slot,       \* per group: the pending Example (its index), 0 when none
    examples,   \* the Examples assembled so far, in order
    orphans,    \* the orphaned outputs: <<group, line>>
    finished    \* the end of the input was reached

runvars == <<pc, directive, outcome, reported>>

asmvars == <<doc, slot, examples, orphans, finished>>

vars == <<runvars, asmvars>>

NoDirective == [name |-> "none"]

Init ==
    /\ pc = "ready"
    /\ directive = NoDirective
    /\ outcome = [raised |-> "none", node |-> NoNode]
    /\ reported = <<>>
    /\ doc = <<>>
    /\ slot = [g \in GroupNames |-> 0]
    /\ examples = <<>>
    /\ orphans = {}
    /\ finished = FALSE

\* docutils calls run on one directive of the set D.
RunDirective(D) ==
    /\ pc = "ready"
    /\ \E d \in D :
          LET r == Run(d, reported)
          IN  /\ directive' = d
              /\ outcome' = [raised |-> r.raised, node |-> r.node]
              /\ reported' = r.reported
              /\ pc' = IF r.raised = "none" THEN "returned" ELSE "raised"
    /\ UNCHANGED asmvars

RunFlagDirective == RunDirective(FlagDirectives)

RunGateDirective == RunDirective(GateDirectives)

RunNormDirective == RunDirective(NormDirectives)

Next == RunFlagDirective

Spec == Init /\ [][Next]_vars

NextGate == RunGateDirective

SpecGate == Init /\ [][NextGate]_vars

NextNorm == RunNormDirective

SpecNorm == Init /\ [][NextNorm]_vars

RunGroupDirective == RunDirective(GroupDirectives)

NextGroups == RunGroupDirective

SpecGroups == Init /\ [][NextGroups]_vars

\* The scanner hands the next directive block to the assembler.
ScanBlock ==
    /\ ~finished
    /\ Len(doc) < MaxDoc
    /\ \E b \in Blocks :
          LET st == Assemble([slot |-> slot, examples |-> examples,
                              orphans |-> orphans], b, Len(doc) + 1)
          IN  /\ doc' = Append(doc, b)
              /\ slot' = st.slot
              /\ examples' = st.examples
              /\ orphans' = st.orphans
    /\ UNCHANGED <<finished, runvars>>

\* The scanner passes over prose: nothing reaches the assembler.
ScanProse ==
    /\ ~finished
    /\ Len(doc) < MaxDoc
    /\ doc' = Append(doc, Prose)
    /\ UNCHANGED <<slot, examples, orphans, finished, runvars>>

\* The end of the input: what is pending is flushed as it stands.
EndOfInput ==
    /\ ~finished
    /\ finished' = TRUE
    /\ slot' = [g \in GroupNames |-> 0]
    /\ UNCHANGED <<doc, examples, orphans, runvars>>

NextAsm == ScanBlock \/ ScanProse \/ EndOfInput

SpecAsm == Init /\ [][NextAsm]_vars

\* ===================================================== the claims' vocabulary
\* What the claims speak of, stated apart from the operators above.

Returned == pc = "returned"

Called == pc # "ready"

\* The index at which option `name` is declared.
DeclaredAt(options, name) ==
    CHOOSE i \in 1..Len(options) : options[i].name = name

\* A well-formed comparison-flag token: a sign and a registered flag name.
WellFormed(token) ==
    /\ Len(token) = 2
    /\ token[1] \in {"+", "-"}
    /\ token[2] \in RegisteredFlags

\* The mapping a token list stands for: every flag a well-formed token
\* names, with the sign of the last token that names it.
ExpectedFlags(tokens) ==
    LET named(f) == {k \in 1..Len(tokens) :
                        WellFormed(tokens[k]) /\ tokens[k][2] = f}
        flags    == {f \in RegisteredFlags : named(f) # {}}
    IN  [f \in flags |->
            LET last == CHOOSE k \in named(f) : \A j \in named(f) : j <= k
            IN  tokens[last][1] = "+"]

\* The tokens of the directive's "options" value (none without the option).
DirectiveTokens ==
    IF HasOption(directive.options, "options")
    THEN OptionStrings(OptionValue(directive.options, "options"))
    ELSE <<>>

TakesFlagList ==
    /\ Called
    /\ directive.name \in {"doctest", "testoutput"}
    /\ HasOption(directive.options, "options")

HasMalformedToken ==
    \E k \in 1..Len(DirectiveTokens) : ~WellFormed(DirectiveTokens[k])

\* ---------------------------------------------------------------------- C3
\* C3: for a doctest or testoutput block with an "options" value, the node's
\* options mapping holds exactly the flags its well-formed tokens name, each
\* with the sign of its last token, and no other key.
C3_OptionsAreTheWellFormedTokens ==
    TakesFlagList =>
        /\ outcome.raised = "none"
        /\ outcome.node.nodetype # "none"
        /\ outcome.node.options = ExpectedFlags(DirectiveTokens)

\* C3, on the lists the code gets through: when every token is well formed
\* the mapping is the one the tokens name.
C3_HoldsOnWellFormedLists ==
    (TakesFlagList /\ ~HasMalformedToken) =>
        /\ outcome.raised = "none"
        /\ outcome.node.options = ExpectedFlags(DirectiveTokens)

\* ---------------------------------------------------------------------- C4
\* C4: when the "options" value holds a malformed token, run still returns
\* its node, a warning with the token and the directive's line is recorded
\* for each such token, and the mapping holds the well-formed tokens only.
C4_MalformedTokenIsWarnedAndDropped ==
    (TakesFlagList /\ HasMalformedToken) =>
        /\ outcome.raised = "none"
        /\ outcome.node.nodetype # "none"
        /\ \A k \in 1..Len(DirectiveTokens) :
              ~WellFormed(DirectiveTokens[k]) =>
                 \E w \in 1..Len(reported) :
                    /\ reported[w].line = directive.lineno
                    /\ reported[w].token \in
                          {DirectiveTokens[k], Tail(DirectiveTokens[k])}
        /\ outcome.node.options = ExpectedFlags(DirectiveTokens)

\* ---------------------------------------------------------------------- C5
\* C5: a testcode, testoutput or doctest block whose pyversion specifier
\* does not match the running interpreter has SKIP set true in its options.
C5_VersionMismatchSetsSkip ==
    ( /\ Called
      /\ directive.name \in {"testcode", "testoutput", "doctest"}
      /\ HasOption(directive.options, "pyversion")
      /\ ValidSpecifier(OptionValue(directive.options, "pyversion"))
      /\ ~SpecifierMatches(OptionValue(directive.options, "pyversion")) ) =>
        /\ outcome.raised = "none"
        /\ outcome.node.nodetype # "none"
        /\ "SKIP" \in DOMAIN outcome.node.options
        /\ outcome.node.options["SKIP"] = TRUE

\* ---------------------------------------------------------------------- C6
\* C6: when pyversion is not a valid specifier, run does not fail: a warning
\* is recorded, the options mapping is the one the "options" value names (no
\* SKIP from the gate), skipif and the trim toggles are processed and the
\* node is returned.
C6_InvalidPyversionIsWarnedOnly ==
    ( /\ Called
      /\ HasOption(directive.options, "pyversion")
      /\ ~ValidSpecifier(OptionValue(directive.options, "pyversion")) ) =>
        /\ outcome.raised = "none"
        /\ outcome.node.nodetype # "none"
        /\ \E w \in 1..Len(reported) : reported[w].line = directive.lineno
        /\ outcome.node.options =
              (IF directive.name \in {"doctest", "testoutput"}
               THEN ExpectedFlags(DirectiveTokens) ELSE EmptyMap)
        /\ HasOption(directive.options, "skipif") =>
              outcome.node.skipif = OptionValue(directive.options, "skipif")
        /\ ( \/ HasOption(directive.options, "trim-doctest-flags")
             \/ HasOption(directive.options, "no-trim-doctest-flags") ) =>
              outcome.node.trim_flags # "unset"

\* ---------------------------------------------------------------------- C7
HasTrim == HasOption(directive.options, "trim-doctest-flags")

HasNoTrim == HasOption(directive.options, "no-trim-doctest-flags")

TrimDeclaredLast ==
    DeclaredAt(directive.options, "trim-doctest-flags") >
        DeclaredAt(directive.options, "no-trim-doctest-flags")

\* C7 as claimed: with both toggles on one block the one declared later
\* decides the node's trim setting; one alone decides it; neither leaves it
\* unset.
C7_ToggleDeclaredLaterWins ==
    Returned =>
        outcome.node.trim_flags =
            (CASE HasTrim /\ HasNoTrim ->
                     (IF TrimDeclaredLast THEN "True" ELSE "False")
               [] HasTrim /\ ~HasNoTrim -> "True"
               [] ~HasTrim /\ HasNoTrim -> "False"
               [] OTHER -> "unset")

\* C7 as amended: the node's trim setting is true whenever
\* trim-doctest-flags is present, in either order with
\* no-trim-doctest-flags; false when only no-trim-doctest-flags is present;
\* unset with neither.
C7_TrimTogglePresentWins ==
    Returned =>
        /\ HasTrim => outcome.node.trim_flags = "True"
        /\ (~HasTrim /\ HasNoTrim) => outcome.node.trim_flags = "False"
        /\ (~HasTrim /\ ~HasNoTrim) => outcome.node.trim_flags = "unset"

\* C7's case: both toggles, no-trim-doctest-flags declared last, and the
\* node says true.
C7_BothTogglesNoTrimLast ==
    /\ Returned
    /\ HasTrim /\ HasNoTrim /\ ~TrimDeclaredLast
    /\ outcome.node.trim_flags = "True"

\* ------------------------------------------------- the vocabulary of texts
\* An inline flag annotation starts at index i of t: a "#", spaces,
\* "doctest:" and at least one more character, all on one line.
AnnotationAt(t, i) ==
    /\ t[i] = "#"
    /\ \E j \in (i + 1)..(Len(t) - 1) :
          /\ \A k \in (i + 1)..(j - 1) : t[k] = " "
          /\ t[j] = "doctest:"
          /\ t[j + 1] # "NL"

HasAnnotation(t) == \E i \in 1..Len(t) : AnnotationAt(t, i)

Holds(t, token) == \E i \in 1..Len(t) : t[i] = token

\* t without its markers and its white space.
RECURSIVE Solid(_)
Solid(t) ==
    IF t = <<>> THEN <<>>
    ELSE IF Head(t) \in {"<BLANKLINE>", " ", "NL"} THEN Solid(Tail(t))
    ELSE <<Head(t)>> \o Solid(Tail(t))

\* The lines of t.
RECURSIVE TextLinesFrom(_, _, _)
TextLinesFrom(t, i, cur) ==
    IF i > Len(t) THEN <<cur>>
    ELSE IF t[i] = "NL" THEN <<cur>> \o TextLinesFrom(t, i + 1, <<>>)
    ELSE TextLinesFrom(t, i + 1, Append(cur, t[i]))

TextLines(t) == TextLinesFrom(t, 1, <<>>)

BlankLine(line) == \A k \in 1..Len(line) : line[k] = " "

\* A line that holds a marker and, before it, its indentation only.
MarkerLine(line) ==
    /\ line # <<>>
    /\ line[Len(line)] = "<BLANKLINE>"
    /\ \A k \in 1..(Len(line) - 1) : line[k] = " "

\* Every marker of t stands alone on its line, and no blank line comes
\* directly before a marker line.
MarkersStandAlone(t) ==
    LET L == TextLines(t)
    IN  \A i \in 1..Len(L) :
           Holds(L[i], "<BLANKLINE>") =>
              /\ MarkerLine(L[i])
              /\ i > 1 => ~BlankLine(L[i - 1])

\* No line of t holds two markers.
OneMarkerPerLine(t) ==
    \A i, j \in 1..Len(t) :
        (i < j /\ t[i] = "<BLANKLINE>" /\ t[j] = "<BLANKLINE>") =>
            \E k \in (i + 1)..(j - 1) : t[k] = "NL"

\* No "#" of t is followed, after white space only, by another "#".
NoHashAfterHash(t) ==
    \A i, j \in 1..Len(t) :
        (i < j /\ t[i] = "#" /\ t[j] = "#") =>
            \E k \in (i + 1)..(j - 1) : ~IsSpace(t[k])

NoTrim == HasOption(directive.options, "no-trim-doctest-flags")

SuppliesText == directive.name \in {"testcode", "testoutput", "doctest"}

\* ---------------------------------------------------------------------- C8
\* C8 as claimed: on a testcode, testoutput or doctest block without
\* no-trim-doctest-flags no inline annotation remains in the working text
\* and a text that had one is kept in `test`; with no-trim-doctest-flags the
\* annotations stay as they were.
C8_AnnotationsStrippedOnEveryKind ==
    (Returned /\ SuppliesText) =>
        /\ ~NoTrim =>
              /\ ~HasAnnotation(outcome.node.code)
              /\ HasAnnotation(directive.content) =>
                    outcome.node.test = directive.content
        /\ NoTrim => Solid(outcome.node.code) = Solid(directive.content)

\* C8 as amended: the stripping is done on doctest blocks only.  There,
\* without no-trim-doctest-flags, no inline annotation remains in the
\* working text and a text that had one is kept whole in `test`; with
\* no-trim-doctest-flags nothing but markers and white space is removed, and
\* a text without markers is left as it is.  The text of a testcode or
\* testoutput block is never changed and gets no `test`.
C8_AnnotationsStrippedOnDoctest ==
    Returned =>
        /\ (directive.name = "doctest" /\ ~NoTrim) =>
              /\ ~HasAnnotation(outcome.node.code)
              /\ HasAnnotation(directive.content) =>
                    outcome.node.test = directive.content
        /\ (directive.name = "doctest" /\ NoTrim) =>
              /\ Solid(outcome.node.code) = Solid(directive.content)
              /\ ~Holds(directive.content, "<BLANKLINE>") =>
                    /\ outcome.node.code = directive.content
                    /\ outcome.node.test = None
        /\ directive.name # "doctest" =>
              /\ outcome.node.code = directive.content
              /\ outcome.node.test = None

\* C8's case: a doctest block with an annotation after some code, stripped
\* from the working text and kept in `test`.
C8_DoctestAnnotationStripped ==
    /\ Returned
    /\ directive.name = "doctest"
    /\ ~NoTrim
    /\ directive.content = <<"x", " ", "#", "doctest:", "x">>
    /\ outcome.node.code = <<"x", " ">>
    /\ outcome.node.test = directive.content

\* ---------------------------------------------------------------------- C9
\* What C9 promises of a text with markers: none is left, every marker line
\* is empty, the other lines and the number of lines are as before.
MarkersBlanked(before, after) ==
    LET B == TextLines(before)
        A == TextLines(after)
    IN  /\ ~Holds(after, "<BLANKLINE>")
        /\ Len(A) = Len(B)
        /\ \A i \in 1..Len(B) :
              A[i] = (IF Holds(B[i], "<BLANKLINE>") THEN <<>> ELSE B[i])

SecondPass ==
    Normalize(directive.name, outcome.node.code, directive.options).code

StartsCode(block, g) ==
    block.kind \in {"testcode", "doctest"} /\ InGroup(block, g)

\* The place of the last code block of group g before place j, 0 when none.
LastCodeBefore(j, g) ==
    LET S == {i \in 1..(j - 1) : StartsCode(doc[i], g)}
    IN  IF S = {} THEN 0 ELSE CHOOSE i \in S : \A k \in S : k <= i

\* The testoutput blocks of group g that follow the code block at place i
\* before the next code block of the group, in document order.
Followers(i, g) ==
    {j \in (i + 1)..Len(doc) :
        /\ doc[j].kind = "testoutput"
        /\ InGroup(doc[j], g)
        /\ LastCodeBefore(j, g) = i}

\* No output of group g was orphaned before place i.
NoOrphanBefore(g, i) == \A o \in orphans : o[1] = g => o[2] > i

\* The Examples of group g whose code block stands at place i.
ExamplesAt(i, g) ==
    {e \in 1..Len(examples) :
        examples[e].group = g /\ examples[e].lineno = i}

\* The places of the outputs attached to Example e, in order.
OutputPlaces(e) ==
    [k \in 1..Len(examples[e].outputs) |-> examples[e].outputs[k].lineno]

\* text is body without its common indentation: the same lines, the same
\* relative indentation, and a non-blank line at indentation 0.
IsDedentOf(text, body) ==
    /\ Len(text) = Len(body)
    /\ \A i \in 1..Len(body) : text[i][2] = body[i][2]
    /\ \A i, j \in 1..Len(body) :
          (body[i][2] # "" /\ body[j][2] # "") =>
             text[i][1] - text[j][1] = body[i][1] - body[j][1]
    /\ \E i \in 1..Len(body) : body[i][2] # "" /\ text[i][1] = 0

\* The non-prose items of the document, by place.
BlockPlaces == {i \in 1..Len(doc) : doc[i].kind # "prose"}

C2_EveryOutputIsAnAlternative ==
    \A i \in 1..Len(doc) : \A g \in GroupNames :
        ( /\ doc[i].kind = "testcode"
          /\ InGroup(doc[i], g)
          /\ NoOrphanBefore(g, i)
          /\ Cardinality(Followers(i, g)) >= 2 ) =>
           /\ Cardinality(ExamplesAt(i, g)) = 1
           /\ \A e \in ExamplesAt(i, g) :
                 /\ {OutputPlaces(e)[k] : k \in 1..Len(OutputPlaces(e))}
                       = Followers(i, g)
                 /\ \A k \in 1..(Len(OutputPlaces(e)) - 1) :
                       OutputPlaces(e)[k] < OutputPlaces(e)[k + 1]
                 /\ \A k \in 1..Len(examples[e].outputs) :
                       /\ IsDedentOf(examples[e].outputs[k].want,
                                     doc[OutputPlaces(e)[k]].body)
                       /\ examples[e].outputs[k].skip
                             = doc[OutputPlaces(e)[k]].skip
                 /\ \A j \in Followers(i, g) :
                       ( /\ ~doc[j].skip
                         /\ \A h \in Followers(i, g) : h < j => doc[h].skip ) =>
                          IsDedentOf(Want(examples[e]), doc[j].body)
           /\ \A j \in Followers(i, g) : <<g, j>> \notin orphans

\* C2's case: a testcode followed by a skipped and then an unskipped
\* testoutput; both are alternatives of the one Example and the second is
\* the expectation.
C2_SkippedThenUnskippedOutput ==
    /\ Len(doc) = 3
    /\ doc[1].kind = "testcode" /\ doc[1].groups = <<"default">>
    /\ doc[2].kind = "testoutput" /\ doc[2].groups = <<"default">>
    /\ doc[2].skip
    /\ doc[3].kind = "testoutput" /\ doc[3].groups = <<"default">>
    /\ ~doc[3].skip
    /\ doc[2].body # doc[3].body
    /\ Len(examples) = 1
    /\ OutputPlaces(1) = <<2, 3>>
    /\ Want(examples[1]) = examples[1].outputs[2].want
    /\ orphans = {}

\* ------------------------------------------- the vocabulary of arguments
\* The places of the commas of argument text s.
CommaPlaces(s) == {i \in 1..Len(s) : s[i] = ","}

\* The place of the k-th comma of s; 0 before the first piece and
\* Len(s) + 1 after the last.
CommaAt(s, k) ==
    IF k = 0 THEN 0
    ELSE IF k > Cardinality(CommaPlaces(s)) THEN Len(s) + 1
    ELSE CHOOSE i \in CommaPlaces(s) :
            Cardinality({j \in CommaPlaces(s) : j <= i}) = k

\* The k-th comma-separated piece of s, as written.
Piece(s, k) == SubSeq(s, CommaAt(s, k - 1) + 1, CommaAt(s, k) - 1)

\* name is piece without the white space around it.
IsTrimOf(name, piece) ==
    /\ \E a, b \in 0..Len(piece) :
          /\ a + Len(name) + b = Len(piece)
          /\ \A i \in 1..a : piece[i] = " "
          /\ \A i \in (Len(piece) - b + 1)..Len(piece) : piece[i] = " "
          /\ name = SubSeq(piece, a + 1, Len(piece) - b)
    /\ name # <<>> => name[1] # " " /\ name[Len(name)] # " "

\* --------------------------------------------------------------------- C11
\* C11: the node of a block without an argument has the groups ["default"];
\* the node of a block with an argument has one group per comma-separated
\* piece of the argument, in the order written, each the piece without the
\* white space around it.
C11_GroupsAreTheTrimmedPieces ==
    Returned =>
        IF directive.arguments = <<>>
        THEN outcome.node.groups = << <<"default">> >>
        ELSE LET s == directive.arguments[1]
                 groups == outcome.node.groups
             IN  /\ Len(groups) = Cardinality(CommaPlaces(s)) + 1
                 /\ \A k \in 1..Len(groups) : IsTrimOf(groups[k], Piece(s, k))

\* C11's case: the argument "a ,b" gives the groups a and b, the white
\* space before the comma trimmed.
C11_TwoNamesTrimmed ==
    /\ Returned
    /\ directive.arguments = << <<"a", " ", ",", "b">> >>
    /\ outcome.node.groups = << <<"a">>, <<"b">> >>

\* --------------------------------------------------------------------- C12
\* C12: the original text is saved on the node only if it differs from the
\* code text: a node that carries "test" carries one different from its
\* code, and a node whose code is the body as written carries no "test".
C12_TestSavedOnlyIfItDiffers ==
    Returned =>
        /\ outcome.node.test # None => outcome.node.test # outcome.node.code
        /\ outcome.node.code = directive.content => outcome.node.test = None

\* The other half of lines 72-74, which holds: a node that carries "test"
\* carries the body as written.
C12_SavedTestIsTheBody ==
    (Returned /\ outcome.node.test # None) =>
        outcome.node.test = directive.content

====
